---- MODULE Spec2Model ----
(***************************************************************************)
(* Model of two parts of the transip-api workspace:                        *)
(*   - crates/dns-check-updated/src/lib.rs: has_acme_challenge, the        *)
(*     bounded poll for an ACME DNS-01 TXT record on every authoritative   *)
(*     nameserver of a domain;                                             *)
(*   - crates/transip-api/src/authentication/token.rs: the expiry check    *)
(*     of a bearer token (TokenExpired for Token and Option<Token>).       *)
(* Spec is the poller, SpecFair the poller with the scheduling fairness,   *)
(* SpecToken the token holder.                                             *)
(***************************************************************************)
EXTENDS Integers, Sequences, FiniteSets, TLC

\* ---------------------------------------------------------------- bounds
\* largest number of authoritative resolvers discovery can return
MaxResolvers == 2
\* number of calls of has_acme_challenge in one behaviour
MaxCalls == 2
\* the clock of the token holder runs over 0..MaxNow
MaxNow == 6
\* expiry timestamps of the tokens run over 0..MaxExp
MaxExp == 9
\* longest text of a token or of a file, in characters
MaxLen == 5
\* two concurrent calls: the second domain converges after at most MaxLag
\* failed CHECK rounds
MaxLag == 1

\* ------------------------------------------------------ program constants
MAX_RETRIES == 720
WAIT_SECONDS == 5
INITIAL_WAIT == 1
\* i64::MAX, the expiry of Token::demo(); the largest integer TLC represents
\* stands for it, every clock value and every other expiry is far below
I64_MAX == 2147483647

VARIABLES
    \* ---- has_acme_challenge: the call's own state
    pc,           \* position: "idle", "init", "wait", "check", "sleep", "done"
    resolvers,    \* the Vec of authoritative resolvers bound at line 42
    i,            \* the attempt counter (line 46)
    results,      \* answers collected so far in the running CHECK round
    asked,        \* the resolvers queried so far in that round, in order
    outcome,      \* "none" while running, else the value returned
    \* ---- the domain (environment)
    delegation,   \* the domain's NS records now: nameservers 1..delegation
    \* ---- observations of one call (reset when a call starts)
    calls,        \* calls started so far
    discovery,    \* "none", "ok" or "err": what line 42-44 gave
    discoveries,  \* number of times discovery ran
    rounds,       \* CHECK rounds ended (decided, or aborted by an error)
    failedRounds, \* CHECK rounds that ended with at least one false
    queries,      \* has_single_acme calls made
    netErrors,    \* has_single_acme calls that returned a transport error
    sleeps1,      \* 1s sleeps performed (line 48)
    sleeps5,      \* WAIT_SECONDS sleeps performed (line 59)
    warns,        \* tracing::warn! events (line 58)
    errors,       \* tracing::error! events (line 62)
    \* ---- token holder
    now,          \* Utc::now().timestamp()
    token,        \* an Option<Token>: None or Some(t)
    obs,          \* the last token_expired evaluation
    \* ---- token text and token file
    parsed,       \* the last Token::try_from: its input and its result
    file,         \* the file at the path: absent, or its content
    fresh,        \* the file was written by try_to_write_file and not since
    readBack,     \* the last Token::try_from_file since the file changed
    \* ---- two concurrent calls of has_acme_challenge, c \in Callers
    nres,         \* nres[c]: number of authoritative resolvers of c's domain
    lag,          \* lag[c]: CHECK rounds in which c's first nameserver still
                  \*         lacks the record
    cpc,          \* cpc[c]: position of call c
    cresolvers,   \* cresolvers[c]: its resolvers
    ci,           \* ci[c]: its attempt counter
    cresults,     \* cresults[c]: answers collected in its running round
    crounds,      \* crounds[c]: CHECK rounds it has ended
    coutcome      \* coutcome[c]: "none" while running, else what it returned

pollVars == <<pc, resolvers, i, results, asked, outcome, delegation,
              calls, discovery,
              discoveries, rounds, failedRounds, queries, netErrors, sleeps1,
              sleeps5, warns, errors>>
tokenVars == <<now, token, obs>>
fileVars == <<parsed, file, fresh, readBack>>
pairVars == <<nres, lag, cpc, cresolvers, ci, cresults, crounds, coutcome>>
vars == <<pollVars, tokenVars, fileVars, pairVars>>

Nameservers == 1..MaxResolvers

\* ------------------------------------------------------- pure functions

\* .into_iter().all(identity) over the collected Vec<bool>
AnyTrue(rs) == \E k \in 1..Len(rs) : rs[k]
AllTrue(rs) == \A k \in 1..Len(rs) : rs[k]

\* the loop condition of the while at lines 49-55, the Vec being collected
LoopCond(rs, n) == ~AllTrue(rs) /\ n < MAX_RETRIES

\* the test after the loop, line 61
ExhaustedEarly(n) == n >= MAX_RETRIES - 1
Exhausted(n) == n >= MAX_RETRIES

\* what discovery can give: an error, or the list of resolvers, one per
\* address of a nameserver whose hostname resolved (possibly none of them)
DiscoveryErrors == {"ResolverInitError", "DomainHasNoAuthority", "TransportError"}
\* the members of a set of nameservers in discovery order
Ascending(S) ==
    CHOOSE f \in [1..Cardinality(S) -> S] :
        \A a, b \in 1..Cardinality(S) : a < b => f[a] < f[b]
\* no NS record gives DomainHasNoAuthority; otherwise every nameserver whose
\* hostname resolves gives one resolver, the others are skipped
AuthoritiveResolvers ==
    [ok : {FALSE}, list : {<<>>},
     err : {"ResolverInitError", "TransportError"}
           \cup (IF delegation = 0 THEN {"DomainHasNoAuthority"} ELSE {})]
    \cup (IF delegation = 0 THEN {}
          ELSE [ok : {TRUE}, err : {"none"},
                list : {Ascending(S) : S \in SUBSET (1..delegation)}])

\* what one TXT query against nameserver n can give: the exact-match
\* boolean (the record is there, or not yet, or no more), or a transport
\* error
has_single_acme(n) == {[ok |-> TRUE, val |-> TRUE],
                       [ok |-> TRUE, val |-> FALSE],
                       [ok |-> FALSE, val |-> FALSE]}

\* an Option<Token>: None, or Some(Token {raw, expired})
None == [some |-> FALSE, raw |-> <<>>, expired |-> 0]
Some(t) == [some |-> TRUE, raw |-> t.raw, expired |-> t.expired]

\* DEMO_TOKEN: the content of demo_token.txt, a token of three segments
DEMO_TOKEN == <<"a", ".", "a", ".", "a">>

\* impl TokenExpired for Token: self.expired < Utc::now().timestamp() + 2
\* (timestamps are far from the ends of i64, the sum does not wrap)
TokenExpiredInclusive(t, n) == t.expired <= n + 2
TokenExpiredNear(t, n) == t.expired - n < 2 /\ n - t.expired < 2
TokenExpired(t, n) == t.expired < n + 2

\* impl TokenExpired for Option<Token>
OptionTokenExpiredLenient(o, n) == IF o.some THEN TokenExpired(o, n) ELSE FALSE
OptionTokenExpired(o, n) == IF o.some THEN TokenExpired(o, n) ELSE TRUE

\* ---------------------------------------------------------- token text

\* the characters of a text: the separator and one other character
Chars == {".", "a"}
\* every text of at most MaxLen characters
Texts == UNION {[1..n -> Chars] : n \in 0..MaxLen}

\* str::split('.') collected into a Vec: the pieces between the separators,
\* an empty text giving one empty piece
RECURSIVE Split(_)
Split(s) ==
    IF \A k \in 1..Len(s) : s[k] # "."
      THEN <<s>>
      ELSE LET d == CHOOSE k \in 1..Len(s) :
                      s[k] = "." /\ \A j \in 1..(k - 1) : s[j] # "."
           IN <<SubSeq(s, 1, d - 1)>> \o Split(SubSeq(s, d + 1, Len(s)))

\* base64_decode_url_safe followed by serde_json::from_reader into
\* TokenResponseMeta: the segments that are the encoding of token metadata,
\* with the exp claim each carries; every other segment fails to decode
EncodedMetas == {<<"a">>, <<"a", "a">>}
MetaExp(seg) == IF seg = <<"a">> THEN 1 ELSE 8
DecodeMeta(seg) ==
    IF seg \in EncodedMetas
      THEN [ok |-> TRUE, err |-> "none", exp |-> MetaExp(seg)]
      ELSE [ok |-> FALSE, err |-> "Decode", exp |-> 0]

\* impl TryFrom<&str> for EncodedTokenMeta: the second of exactly three
\* segments, Error::Token otherwise
EncodedTokenMetaLast(t) ==
    LET splitted == Split(t)
    IN IF Len(splitted) = 3
         THEN [ok |-> TRUE, err |-> "none", seg |-> splitted[3]]
         ELSE [ok |-> FALSE, err |-> "Token", seg |-> <<>>]
EncodedTokenMeta(t) ==
    LET splitted == Split(t)
    IN IF Len(splitted) = 3
         THEN [ok |-> TRUE, err |-> "none", seg |-> splitted[2]]
         ELSE [ok |-> FALSE, err |-> "Token", seg |-> <<>>]

\* token_expiration_timestamp: TokenResponseMeta::try_from(token), then exp
token_expiration_timestamp(t) ==
    LET e == EncodedTokenMeta(t)
    IN IF e.ok THEN DecodeMeta(e.seg)
               ELSE [ok |-> FALSE, err |-> e.err, exp |-> 0]

\* the result of a try_from / try_from_file that has not been made
NoResult == [kind |-> "none", ok |-> FALSE, err |-> "none", input |-> <<>>,
             tok |-> [raw |-> <<>>, expired |-> 0]]

\* impl TryFrom<String> for Token: Token {raw, expired} with the expiry of
\* the text, or its error
TokenTryFrom(raw) ==
    LET x == token_expiration_timestamp(raw)
    IN [kind |-> "done", ok |-> x.ok, err |-> x.err, input |-> raw,
        tok |-> IF x.ok THEN [raw |-> raw, expired |-> x.exp]
                        ELSE [raw |-> <<>>, expired |-> 0]]

\* ------------------------------------------------------------- poller

PollInit ==
    /\ pc = "idle"
    /\ resolvers = <<>>
    /\ i = 0
    /\ results = <<>>
    /\ outcome = "none"
    /\ asked = <<>>
    /\ delegation \in 0..MaxResolvers
    /\ calls = 0
    /\ discovery = "none"
    /\ discoveries = 0
    /\ rounds = 0
    /\ failedRounds = 0
    /\ queries = 0
    /\ netErrors = 0
    /\ sleeps1 = 0
    /\ sleeps5 = 0
    /\ warns = 0
    /\ errors = 0

TokenInit ==
    /\ now = 0
    /\ token = None
    /\ obs = [kind |-> "none", at |-> 0, res |-> FALSE, tok |-> None]

FileInit ==
    /\ parsed = NoResult
    /\ file = [exists |-> FALSE, data |-> <<>>]
    /\ fresh = FALSE
    /\ readBack = NoResult

\* the two callers
Callers == {1, 2}

\* both calls at their entry, the inputs not yet chosen
PairIdle ==
    /\ cpc = [c \in Callers |-> "init"]
    /\ cresolvers = [c \in Callers |-> <<>>]
    /\ ci = [c \in Callers |-> 0]
    /\ cresults = [c \in Callers |-> <<>>]
    /\ crounds = [c \in Callers |-> 0]
    /\ coutcome = [c \in Callers |-> "none"]

PairInit ==
    /\ nres = [c \in Callers |-> 1]
    /\ lag = [c \in Callers |-> 0]
    /\ PairIdle

Init == PollInit /\ TokenInit /\ FileInit /\ PairInit

\* a call enters has_acme_challenge with fresh locals, except the counter
CallStale ==
    /\ pc \in {"idle", "done"}
    /\ calls < MaxCalls
    /\ calls' = calls + 1
    /\ pc' = "init"
    /\ resolvers' = <<>>
    /\ results' = <<>>
    /\ outcome' = "none"
    /\ discovery' = "none"
    /\ discoveries' = 0
    /\ rounds' = 0
    /\ failedRounds' = 0
    /\ queries' = 0
    /\ netErrors' = 0
    /\ sleeps1' = 0
    /\ sleeps5' = 0
    /\ warns' = 0
    /\ errors' = 0
    /\ asked' = <<>>
    /\ UNCHANGED <<i, delegation>>

\* a call enters has_acme_challenge: every local is fresh
Call ==
    /\ pc \in {"idle", "done"}
    /\ calls < MaxCalls
    /\ calls' = calls + 1
    /\ pc' = "init"
    /\ resolvers' = <<>>
    /\ i' = 0
    /\ results' = <<>>
    /\ outcome' = "none"
    /\ discovery' = "none"
    /\ discoveries' = 0
    /\ rounds' = 0
    /\ failedRounds' = 0
    /\ queries' = 0
    /\ netErrors' = 0
    /\ sleeps1' = 0
    /\ sleeps5' = 0
    /\ warns' = 0
    /\ errors' = 0
    /\ asked' = <<>>
    /\ UNCHANGED delegation

\* discovery that tries again after a failure
DiscoverRetry ==
    /\ pc = "init"
    /\ discoveries < 2
    /\ \E d \in AuthoritiveResolvers :
         /\ discoveries' = discoveries + 1
         /\ IF d.ok
              THEN /\ resolvers' = d.list
                   /\ discovery' = "ok"
                   /\ pc' = "wait"
                   /\ outcome' = outcome
              ELSE /\ resolvers' = resolvers
                   /\ discovery' = "err"
                   /\ pc' = IF discoveries = 0 THEN "init" ELSE "done"
                   /\ outcome' = IF discoveries = 0 THEN outcome ELSE d.err
    /\ UNCHANGED <<i, results, asked, delegation, calls, rounds,
                   failedRounds, queries,
                   netErrors, sleeps1, sleeps5, warns, errors>>

\* lines 42-44: discovery, its error returned by `?`
Discover ==
    /\ pc = "init"
    /\ \E d \in AuthoritiveResolvers :
         /\ discoveries' = discoveries + 1
         /\ IF d.ok
              THEN /\ resolvers' = d.list
                   /\ discovery' = "ok"
                   /\ pc' = "wait"
                   /\ outcome' = outcome
              ELSE /\ resolvers' = resolvers
                   /\ discovery' = "err"
                   /\ pc' = "done"
                   /\ outcome' = d.err
    /\ UNCHANGED <<i, results, asked, delegation, calls, rounds,
                   failedRounds, queries,
                   netErrors, sleeps1, sleeps5, warns, errors>>

\* line 48: sleep(1s) before the first CHECK round
InitialSleep ==
    /\ pc = "wait"
    /\ sleeps1' = sleeps1 + 1
    /\ pc' = "check"
    /\ UNCHANGED <<resolvers, i, results, asked, outcome, delegation,
                   calls, discovery,
                   discoveries, rounds, failedRounds, queries, netErrors, sleeps5,
                   warns, errors>>

\* a query whose transport error is taken for "not yet there"
QueryErrAsFalse ==
    /\ pc = "check"
    /\ Len(results) < Len(resolvers)
    /\ \E a \in has_single_acme(resolvers[Len(results) + 1]) :
         /\ results' = Append(results, a.ok /\ a.val)
         /\ asked' = Append(asked, resolvers[Len(results) + 1])
         /\ netErrors' = netErrors + (IF a.ok THEN 0 ELSE 1)
    /\ queries' = queries + 1
    /\ UNCHANGED <<pc, resolvers, i, outcome, delegation, calls,
                   discovery,
                   discoveries, rounds, failedRounds, sleeps1, sleeps5, warns,
                   errors>>

\* a round that stops querying at the first false answer
QueryStopAtFalse ==
    /\ pc = "check"
    /\ Len(results) < Len(resolvers)
    /\ \E a \in has_single_acme(resolvers[Len(results) + 1]) :
         IF a.ok
           THEN /\ results' = IF a.val
                               THEN Append(results, TRUE)
                               ELSE results \o [k \in 1..(Len(resolvers)
                                                - Len(results)) |-> FALSE]
                /\ UNCHANGED <<pc, outcome, rounds, netErrors>>
           ELSE /\ netErrors' = netErrors + 1
                /\ outcome' = "TransportError"
                /\ pc' = "done"
                /\ rounds' = rounds + 1
                /\ results' = results
    /\ queries' = queries + 1
    /\ asked' = Append(asked, resolvers[Len(results) + 1])
    /\ UNCHANGED <<resolvers, i, delegation, calls, discovery,
                   discoveries, failedRounds, sleeps1, sleeps5, warns, errors>>

\* lines 49-52: the next resolver of the round is queried; collect into
\* Result<Vec<_>> stops at the first Err, which `?` returns
Query ==
    /\ pc = "check"
    /\ Len(results) < Len(resolvers)
    /\ \E a \in has_single_acme(resolvers[Len(results) + 1]) :
         IF a.ok
           THEN /\ results' = Append(results, a.val)
                /\ UNCHANGED <<pc, outcome, rounds, netErrors>>
           ELSE /\ netErrors' = netErrors + 1
                /\ outcome' = "TransportError"
                /\ pc' = "done"
                /\ rounds' = rounds + 1
                /\ results' = results
    /\ queries' = queries + 1
    /\ asked' = Append(asked, resolvers[Len(results) + 1])
    /\ UNCHANGED <<resolvers, i, delegation, calls, discovery,
                   discoveries,
                   failedRounds, sleeps1, sleeps5, warns, errors>>

\* a failed round that neither counts the attempt nor leaves the loop: the
\* loop turns on the same answers without ever reaching the budget
DecideSpin ==
    /\ pc = "check"
    /\ Len(results) = Len(resolvers)
    /\ IF LoopCond(results, i)
         THEN UNCHANGED pollVars
         ELSE /\ rounds' = rounds + 1
              /\ failedRounds' = failedRounds
              /\ pc' = "done"
              /\ outcome' = "Ok"
              /\ UNCHANGED <<i, warns, results, asked, errors, resolvers,
                             delegation,
                             calls, discovery, discoveries, queries, netErrors,
                             sleeps1, sleeps5>>

\* lines 53-58 and 61-66: the round is complete; the loop condition is
\* evaluated, then either the body starts (count, warn) or the loop is left
\* and the function returns.  results keeps the last round for the caller's
\* view of the model.
Decide ==
    /\ pc = "check"
    /\ Len(results) = Len(resolvers)
    /\ rounds' = rounds + 1
    /\ failedRounds' = failedRounds + (IF AllTrue(results) THEN 0 ELSE 1)
    /\ IF LoopCond(results, i)
         THEN /\ i' = i + 1
              /\ warns' = warns + 1
              /\ results' = <<>>
              /\ asked' = <<>>
              /\ pc' = "sleep"
              /\ UNCHANGED <<outcome, errors>>
         ELSE /\ pc' = "done"
              /\ IF Exhausted(i)
                   THEN /\ errors' = errors + 1
                        /\ outcome' = "AcmeChallege"
                   ELSE /\ errors' = errors
                        /\ outcome' = "Ok"
              /\ UNCHANGED <<i, warns, results, asked>>
    /\ UNCHANGED <<resolvers, delegation, calls, discovery,
                   discoveries, queries,
                   netErrors, sleeps1, sleeps5>>

\* a retry that derives the resolvers again from the delegation of the moment
RetrySleepRediscover ==
    /\ pc = "sleep"
    /\ sleeps5' = sleeps5 + 1
    /\ pc' = "check"
    /\ \E d \in {x \in AuthoritiveResolvers : x.ok}
              \cup {[ok |-> TRUE, err |-> "none", list |-> resolvers]} :
         resolvers' = d.list
    /\ UNCHANGED <<i, results, asked, outcome, delegation,
                   calls, discovery, discoveries, rounds, failedRounds,
                   queries, netErrors, sleeps1, warns, errors>>

\* line 59: sleep(WAIT_SECONDS), then back to the loop condition
RetrySleep ==
    /\ pc = "sleep"
    /\ sleeps5' = sleeps5 + 1
    /\ pc' = "check"
    /\ UNCHANGED <<resolvers, i, results, asked, outcome, delegation,
                   calls, discovery,
                   discoveries, rounds, failedRounds, queries, netErrors, sleeps1,
                   warns, errors>>

\* the domain's delegation changes: NS records are added or removed
Redelegate ==
    /\ \E d \in 0..MaxResolvers : d # delegation /\ delegation' = d
    /\ UNCHANGED <<pc, resolvers, i, results, asked, outcome, calls,
                   discovery, discoveries, rounds, failedRounds, queries,
                   netErrors, sleeps1, sleeps5, warns, errors>>

\* the steps of the call itself
Step == Call \/ Discover \/ InitialSleep \/ Query \/ Decide \/ RetrySleep

Next ==
    \/ Call /\ UNCHANGED <<tokenVars, fileVars, pairVars>>
    \/ Discover /\ UNCHANGED <<tokenVars, fileVars, pairVars>>
    \/ InitialSleep /\ UNCHANGED <<tokenVars, fileVars, pairVars>>
    \/ Query /\ UNCHANGED <<tokenVars, fileVars, pairVars>>
    \/ Decide /\ UNCHANGED <<tokenVars, fileVars, pairVars>>
    \/ RetrySleep /\ UNCHANGED <<tokenVars, fileVars, pairVars>>
    \/ Redelegate /\ UNCHANGED <<tokenVars, fileVars, pairVars>>

Spec == Init /\ [][Next]_vars

\* every DNS query and every sleep returns: a step of a running call is
\* eventually taken
Running == (Discover \/ InitialSleep \/ Query \/ Decide \/ RetrySleep)
             /\ UNCHANGED <<tokenVars, fileVars, pairVars>>
SpecFair == Init /\ [][Next]_vars /\ WF_vars(Running)

\* seconds slept so far in the call
TotalSleep == sleeps1 * INITIAL_WAIT + sleeps5 * WAIT_SECONDS

\* ------------------------------------------------------- token holder

\* the poller stays idle: one state of the domain is enough
Quiet == delegation = 0
InitQuiet == Init /\ Quiet

\* the clock advances by a second
Tick ==
    /\ now < MaxNow
    /\ now' = now + 1
    /\ UNCHANGED <<token, obs>>

\* a Token {raw, expired} is built and held as Some(token)
StoreToken ==
    /\ \E e \in 0..MaxExp : token' = Some([raw |-> <<>>, expired |-> e])
    /\ UNCHANGED <<now, obs>>

\* Token::demo() is held: the demo text, never expiring
StoreDemo ==
    /\ token' = Some([raw |-> DEMO_TOKEN, expired |-> I64_MAX])
    /\ UNCHANGED <<now, obs>>

\* the holder has no token: None
ClearToken ==
    /\ token' = None
    /\ UNCHANGED <<now, obs>>

\* token_expired() is called on the held Option<Token>
CheckOption ==
    /\ obs' = [kind |-> "option", at |-> now,
               res |-> OptionTokenExpired(token, now), tok |-> token]
    /\ UNCHANGED <<now, token>>

\* token_expired() is called on the Token inside the held Some
CheckToken ==
    /\ token.some
    /\ obs' = [kind |-> "token", at |-> now,
               res |-> TokenExpired(token, now), tok |-> token]
    /\ UNCHANGED <<now, token>>

NextToken ==
    \/ Tick /\ UNCHANGED <<pollVars, fileVars, pairVars>>
    \/ StoreToken /\ UNCHANGED <<pollVars, fileVars, pairVars>>
    \/ StoreDemo /\ UNCHANGED <<pollVars, fileVars, pairVars>>
    \/ ClearToken /\ UNCHANGED <<pollVars, fileVars, pairVars>>
    \/ CheckOption /\ UNCHANGED <<pollVars, fileVars, pairVars>>
    \/ CheckToken /\ UNCHANGED <<pollVars, fileVars, pairVars>>

SpecToken == InitQuiet /\ [][NextToken]_vars

\* ----------------------------------------------------------- token file

\* Token::try_from(raw) on some text; a Token obtained is the one held
ParseToken ==
    /\ \E raw \in Texts : parsed' = TokenTryFrom(raw)
    /\ fresh' = FALSE
    /\ UNCHANGED <<file, readBack>>

\* write_all on a file opened with create(true).write(true): the bytes are
\* written from offset 0 over what is there, the rest of the file stays
Overwrite(old, raw) == raw \o SubSeq(old, Len(raw) + 1, Len(old))

\* try_to_write_file(path) of the held Token
WriteFile ==
    /\ parsed.kind = "done" /\ parsed.ok
    /\ file' = [exists |-> TRUE, data |-> Overwrite(file.data, parsed.tok.raw)]
    /\ fresh' = TRUE
    /\ readBack' = NoResult
    /\ UNCHANGED parsed

\* Token::try_from_file(path): the open fails on a missing file, otherwise
\* read_to_string and Token::try_from
ReadFile ==
    /\ readBack' = IF file.exists THEN TokenTryFrom(file.data)
                                  ELSE [NoResult EXCEPT !.kind = "done",
                                                        !.err = "Io"]
    /\ UNCHANGED <<parsed, file, fresh>>

\* something else leaves the file absent or with any content
Scribble ==
    /\ \E t \in Texts, e \in BOOLEAN :
         file' = [exists |-> e, data |-> IF e THEN t ELSE <<>>]
    /\ fresh' = FALSE
    /\ readBack' = NoResult
    /\ UNCHANGED parsed

NextFile ==
    \/ ParseToken /\ UNCHANGED <<pollVars, tokenVars, pairVars>>
    \/ Scribble /\ UNCHANGED <<pollVars, tokenVars, pairVars>>
    \/ WriteFile /\ UNCHANGED <<pollVars, tokenVars, pairVars>>
    \/ ReadFile /\ UNCHANGED <<pollVars, tokenVars, pairVars>>

SpecFile == InitQuiet /\ [][NextFile]_vars

\* --------------------------------------------------- two concurrent calls

\* the answer of resolver k of c's domain in c's CHECK round r: the first
\* nameserver gets the record after lag[c] rounds, the others have it
Answer(c, r, k) == ~(k = 1 /\ r <= lag[c])

\* the domains of the two calls: the first may never converge
PairStart ==
    /\ nres \in [Callers -> 1..MaxResolvers]
    /\ lag \in [Callers -> 0..MaxLag \cup {MAX_RETRIES + 1}]
    /\ lag[2] <= MaxLag
    /\ PairIdle

\* lines 42-44 for call c: its own Vec of resolvers
PDiscover(c) ==
    /\ cpc[c] = "init"
    /\ cresolvers' = [cresolvers EXCEPT ![c] = [k \in 1..nres[c] |-> k]]
    /\ cpc' = [cpc EXCEPT ![c] = "wait"]
    /\ UNCHANGED <<nres, lag, ci, cresults, crounds, coutcome>>

\* line 48 for call c
PInitialSleep(c) ==
    /\ cpc[c] = "wait"
    /\ cpc' = [cpc EXCEPT ![c] = "check"]
    /\ UNCHANGED <<nres, lag, cresolvers, ci, cresults, crounds, coutcome>>

\* lines 49-52 for call c: its next resolver is queried
PQuery(c) ==
    /\ cpc[c] = "check"
    /\ Len(cresults[c]) < Len(cresolvers[c])
    /\ cresults' = [cresults EXCEPT ![c] =
                      Append(@, Answer(c, crounds[c] + 1, Len(@) + 1))]
    /\ UNCHANGED <<nres, lag, cpc, cresolvers, ci, crounds, coutcome>>

\* the loop body of one call counting the attempt in a counter that all
\* calls share
PDecideShared(c) ==
    /\ cpc[c] = "check"
    /\ Len(cresults[c]) = Len(cresolvers[c])
    /\ crounds' = [crounds EXCEPT ![c] = @ + 1]
    /\ IF LoopCond(cresults[c], ci[c])
         THEN /\ ci' = [k \in Callers |->
                          IF ci[k] < MAX_RETRIES THEN ci[k] + 1 ELSE ci[k]]
              /\ cresults' = [cresults EXCEPT ![c] = <<>>]
              /\ cpc' = [cpc EXCEPT ![c] = "sleep"]
              /\ UNCHANGED coutcome
         ELSE /\ cpc' = [cpc EXCEPT ![c] = "done"]
              /\ coutcome' = [coutcome EXCEPT ![c] =
                                IF Exhausted(ci[c]) THEN "AcmeChallege"
                                                    ELSE "Ok"]
              /\ UNCHANGED <<ci, cresults>>
    /\ UNCHANGED <<nres, lag, cresolvers>>

\* lines 53-58 and 61-66 for call c
PDecide(c) ==
    /\ cpc[c] = "check"
    /\ Len(cresults[c]) = Len(cresolvers[c])
    /\ crounds' = [crounds EXCEPT ![c] = @ + 1]
    /\ IF LoopCond(cresults[c], ci[c])
         THEN /\ ci' = [ci EXCEPT ![c] = @ + 1]
              /\ cresults' = [cresults EXCEPT ![c] = <<>>]
              /\ cpc' = [cpc EXCEPT ![c] = "sleep"]
              /\ UNCHANGED coutcome
         ELSE /\ cpc' = [cpc EXCEPT ![c] = "done"]
              /\ coutcome' = [coutcome EXCEPT ![c] =
                                IF Exhausted(ci[c]) THEN "AcmeChallege"
                                                    ELSE "Ok"]
              /\ UNCHANGED <<ci, cresults>>
    /\ UNCHANGED <<nres, lag, cresolvers>>

\* line 59 for call c
PRetrySleep(c) ==
    /\ cpc[c] = "sleep"
    /\ cpc' = [cpc EXCEPT ![c] = "check"]
    /\ UNCHANGED <<nres, lag, cresolvers, ci, cresults, crounds, coutcome>>

NextPair ==
    \/ \E c \in Callers : PDiscover(c) /\ UNCHANGED <<pollVars, tokenVars, fileVars>>
    \/ \E c \in Callers : PInitialSleep(c) /\ UNCHANGED <<pollVars, tokenVars, fileVars>>
    \/ \E c \in Callers : PQuery(c) /\ UNCHANGED <<pollVars, tokenVars, fileVars>>
    \/ \E c \in Callers : PDecide(c) /\ UNCHANGED <<pollVars, tokenVars, fileVars>>
    \/ \E c \in Callers : PRetrySleep(c) /\ UNCHANGED <<pollVars, tokenVars, fileVars>>

InitPair == PollInit /\ Quiet /\ TokenInit /\ FileInit /\ PairStart

SpecPair == InitPair /\ [][NextPair]_vars

\* what has_acme_challenge gives when it runs alone on c's domain, from
\* CHECK round r with the counter at n: lines 46-66 in sequence
RECURSIVE AloneFrom(_, _, _)
AloneFrom(c, r, n) ==
    LET rs == [k \in 1..nres[c] |-> Answer(c, r, k)]
    IN IF LoopCond(rs, n)
         THEN AloneFrom(c, r + 1, n + 1)
         ELSE [outcome |-> IF Exhausted(n) THEN "AcmeChallege" ELSE "Ok",
               rounds |-> r]
Alone(c) == AloneFrom(c, 1, 0)

\* ------------------------------------------------------------- claims

Outcomes == {"Ok", "AcmeChallege", "TransportError"} \cup DiscoveryErrors

\* C1 - Unanimity: whenever the call has returned success, its last CHECK
\* round holds one answer for every discovered resolver and every answer is
\* true; a round with a false answer never ends in success.
C1_Unanimity ==
    outcome = "Ok" =>
        /\ pc = "done"
        /\ Len(results) = Len(resolvers)
        /\ \A k \in 1..Len(resolvers) : results[k] = TRUE
        /\ queries = rounds * Len(resolvers)
C1_Witness ==
    /\ pc = "done" /\ outcome = "Ok"
    /\ Len(resolvers) = 2 /\ failedRounds >= 1

\* C2 - With a value missing in every CHECK round and no transport error the
\* call returns AcmeChallege after exactly MAX_RETRIES CHECK rounds.
C2_ExactBudget ==
    (pc = "done" /\ discovery = "ok" /\ netErrors = 0
        /\ failedRounds = rounds)
    => (outcome = "AcmeChallege" /\ rounds = MAX_RETRIES)

\* C3 - A CHECK round in which every resolver answered true ends the call in
\* success whatever the counter is; AcmeChallege is returned only after a
\* round with a false answer.
C3_AllTrueIsSuccess ==
    (pc = "done" /\ discovery = "ok" /\ netErrors = 0)
    => /\ AllTrue(results) => outcome = "Ok"
       /\ outcome = "AcmeChallege" => ~AllTrue(results)

\* C4 - With at least one resolver, a first CHECK round in which all answer
\* true ends the call in success after that one round, the counter still 0
\* and no WAIT_SECONDS sleep performed; the same holds in every later call.
C4_FirstRoundSuccess ==
    [][(/\ pc = "check" /\ pc' # "check"
        /\ rounds = 0
        /\ Len(resolvers) >= 1
        /\ Len(results) = Len(resolvers)
        /\ AllTrue(results))
       => (/\ pc' = "done" /\ outcome' = "Ok"
           /\ rounds' = 1 /\ i' = 0 /\ sleeps5' = 0 /\ warns' = 0)]_vars
C4_Witness ==
    /\ pc = "done" /\ outcome = "Ok" /\ calls = 2
    /\ Len(resolvers) >= 1 /\ rounds = 1 /\ i = 0 /\ sleeps5 = 0

\* C5 - A failed discovery is returned at once: discovery ran exactly once,
\* no CHECK round and no query took place, and no sleep was performed.
C5_DiscoveryFailure ==
    discovery = "err" =>
        /\ pc = "done"
        /\ outcome \in DiscoveryErrors
        /\ discoveries = 1
        /\ rounds = 0 /\ queries = 0
        /\ sleeps1 = 0 /\ sleeps5 = 0
C5_Witness ==
    /\ discovery = "err" /\ outcome = "DomainHasNoAuthority" /\ pc = "done"

\* C6 - A transport error of one resolver query ends the call with that
\* error: the round is not counted as a failed attempt, the counter is not
\* incremented, no sleep follows and no further resolver is queried.
C6_TransportAborts ==
    netErrors > 0 =>
        /\ pc = "done"
        /\ outcome = "TransportError"
        /\ netErrors = 1
        /\ errors = 0
        /\ i = failedRounds /\ warns = failedRounds
        /\ rounds = failedRounds + 1
        /\ sleeps5 = failedRounds
        /\ Len(results) < Len(resolvers)
        /\ queries = failedRounds * Len(resolvers) + Len(results) + 1
C6_Witness ==
    /\ netErrors = 1 /\ outcome = "TransportError"
    /\ Len(resolvers) = 2 /\ Len(results) = 0 /\ failedRounds >= 1

\* C7 - When every query and every sleep returns, a call that has started
\* ends, in one of the outcomes success, discovery error, transport error or
\* AcmeChallege.
C7_Terminates ==
    (pc = "init") ~> (pc = "done" /\ outcome \in Outcomes)
C7_Witness ==
    /\ pc = "done" /\ outcome = "AcmeChallege" /\ sleeps5 = MAX_RETRIES

\* C8 - After k < MAX_RETRIES failed rounds, a round in which every resolver
\* answers true ends the call in success: k + 1 rounds, k WAIT_SECONDS
\* sleeps, counter k.
C8_SuccessAfterK ==
    [][(/\ pc = "check" /\ pc' # "check"
        /\ Len(results) = Len(resolvers)
        /\ AllTrue(results)
        /\ rounds = failedRounds
        /\ failedRounds < MAX_RETRIES)
       => (/\ pc' = "done" /\ outcome' = "Ok"
           /\ rounds' = failedRounds + 1
           /\ sleeps5' = failedRounds
           /\ i' = failedRounds)]_vars
C8_Witness ==
    /\ pc = "done" /\ outcome = "Ok"
    /\ Len(resolvers) >= 1
    /\ failedRounds = MAX_RETRIES - 1 /\ rounds = MAX_RETRIES

\* the sleeps of a call are one INITIAL_WAIT sleep after discovery and one
\* WAIT_SECONDS sleep between consecutive CHECK rounds, at most
\* MAX_RETRIES * WAIT_SECONDS + INITIAL_WAIT seconds in all
SleepsBetweenRounds ==
    /\ sleeps1 = (IF discovery = "ok" /\ pc # "wait" THEN 1 ELSE 0)
    /\ pc = "check" => sleeps5 = rounds
    /\ pc = "sleep" => sleeps5 = rounds - 1
    /\ (pc = "done" /\ discovery = "ok") => sleeps5 = rounds - 1
    /\ discovery # "ok" => sleeps5 = 0
    /\ TotalSleep <= MAX_RETRIES * WAIT_SECONDS + INITIAL_WAIT

\* C9 - The sleeps are exactly the initial one and one between consecutive
\* CHECK rounds, the total never exceeds 3601s, and no WAIT_SECONDS sleep is
\* performed once the counter has reached MAX_RETRIES.
C9_SleepDiscipline ==
    /\ SleepsBetweenRounds
    /\ pc = "sleep" => i < MAX_RETRIES

\* C10 - token_expired on an Option<Token> is true for None and, for Some(t),
\* what token_expired gives for t at the same instant.
C10_OptionExpired ==
    obs.kind = "option" =>
        /\ ~obs.tok.some => obs.res = TRUE
        /\ obs.tok.some =>
              obs.res = TokenExpired([raw |-> obs.tok.raw,
                                      expired |-> obs.tok.expired], obs.at)
C10_Witness ==
    /\ obs.kind = "option" /\ ~obs.tok.some /\ obs.res = TRUE /\ obs.at >= 1

\* C11 - token_expired of a Token with expiry e at time now is true exactly
\* when e is at most one second ahead of now (e < now + 2): expired when e
\* = now or e = now + 1, not expired from e = now + 2 on, and the demo token
\* (expiry i64::MAX) is never reported expired.
C11_ExpiryThreshold ==
    obs.kind = "token" =>
        /\ obs.tok.expired - obs.at <= 1 => obs.res = TRUE
        /\ obs.tok.expired - obs.at >= 2 => obs.res = FALSE
        /\ obs.tok.expired = I64_MAX => obs.res = FALSE
C11_Witness ==
    /\ obs.kind = "token" /\ obs.at >= 1
    /\ obs.tok.expired = obs.at + 1 /\ obs.res = TRUE

\* the number of separators of a text, and the piece between the first two
NumDots(t) == Cardinality({k \in 1..Len(t) : t[k] = "."})
Middle(t) ==
    LET ds == {k \in 1..Len(t) : t[k] = "."}
        d1 == CHOOSE k \in ds : \A j \in ds : k <= j
        d2 == CHOOSE k \in ds \ {d1} : \A j \in ds \ {d1} : k <= j
    IN [k \in 1..(d2 - d1 - 1) |-> t[d1 + k]]

\* C12 - Token::try_from(raw) succeeds only for a text of exactly three
\* '.'-separated segments whose middle one decodes to token metadata; any
\* other number of segments gives Error::Token and no Token.  On success
\* raw() is the input unchanged and the expiry is the exp claim of the second
\* segment.
C12_TryFrom ==
    parsed.kind = "done" =>
        /\ parsed.ok <=> (NumDots(parsed.input) = 2
                           /\ Middle(parsed.input) \in EncodedMetas)
        /\ NumDots(parsed.input) # 2 => (~parsed.ok /\ parsed.err = "Token")
        /\ parsed.ok => /\ parsed.tok.raw = parsed.input
                        /\ parsed.tok.expired = MetaExp(Middle(parsed.input))
C12_Witness ==
    /\ parsed.kind = "done" /\ parsed.ok
    /\ parsed.input = <<"a", ".", "a", "a", ".">>
    /\ parsed.tok.expired = 8

\* C13 - In a CHECK round without transport error every discovered resolver
\* is queried exactly once, one after the other in discovery order; a false
\* answer does not end the round, which is decided only when all were asked.
C13_RoundOrder ==
    [][/\ asked' = SubSeq(resolvers', 1, Len(asked'))
       /\ netErrors' = 0 => Len(asked') = Len(results')
       /\ (rounds' = rounds + 1 /\ netErrors' = 0)
            => (asked = resolvers /\ Len(results) = Len(resolvers))]_vars
C13_Witness ==
    /\ pc = "check" /\ resolvers = <<1, 2>>
    /\ results = <<FALSE, TRUE>> /\ asked = <<1, 2>> /\ rounds >= 1

\* C14 - The resolvers found by discovery stay the same for the whole call:
\* discovery runs once, every CHECK round queries that list in that order,
\* and a change of the delegation while polling changes nothing of it.
C14_ResolversFixed ==
    [][(pc \in {"wait", "check", "sleep"})
       => (/\ resolvers' = resolvers
           /\ discoveries = 1 /\ discoveries' = 1
           /\ asked' = SubSeq(resolvers, 1, Len(asked')))]_vars
C14_Witness ==
    /\ pc = "check" /\ rounds >= 1
    /\ resolvers = <<1, 2>> /\ asked = <<1, 2>>
    /\ delegation = 0

\* the counter moves only by +1, together with the count of failed rounds,
\* and stays within 0..MAX_RETRIES; the warnings follow the counter
CounterSteps ==
    [][/\ pc' = "init" => i' = 0
       /\ pc' # "init" =>
            (i' = i \/ (i' = i + 1 /\ failedRounds' = failedRounds + 1))
       /\ 0 <= i' /\ i' <= MAX_RETRIES
       /\ warns' = i']_vars

\* C15 - The counter starts at 0, never decreases, changes only by +1 and
\* only after a CHECK round with a false answer, stays within 0..MAX_RETRIES
\* and always equals the number of failed CHECK rounds completed so far.
C15_Counter ==
    [][/\ pc' = "init" => i' = 0
       /\ pc' # "init" =>
            (i' = i \/ (i' = i + 1 /\ failedRounds' = failedRounds + 1))
       /\ 0 <= i' /\ i' <= MAX_RETRIES
       /\ i' = failedRounds']_vars

\* an error event is logged once, with the return of AcmeChallege, and never
\* otherwise
ErrorLoggedOnTimeout == errors = (IF outcome = "AcmeChallege" THEN 1 ELSE 0)

\* C16 - Every CHECK round ending with a false answer logs one warning, so
\* the warnings of a call number its failed CHECK rounds; one error is logged
\* exactly when the call returns AcmeChallege.
C16_Logging ==
    /\ warns = failedRounds
    /\ ErrorLoggedOnTimeout

\* C18 - The call returns success only if at least one resolver was queried
\* in the last CHECK round and answered true; with an empty resolver list it
\* does not report success without a single TXT query.
C18_SuccessNeedsQuery ==
    outcome = "Ok" =>
        /\ queries >= 1
        /\ Len(asked) >= 1
        /\ \E k \in 1..Len(results) : results[k] = TRUE

\* the state that call c owns
Own(c) == <<cpc[c], cresolvers[c], ci[c], cresults[c], crounds[c], coutcome[c]>>

\* C17 - Two concurrent calls share no mutable state: a step of one call
\* leaves the resolvers, counter, answers and outcome of the other as they
\* were, and under every interleaving each call ends with the number of CHECK
\* rounds and the outcome it has when it runs alone on the same answers.
C17_Independent ==
    [][\A c \in Callers :
         /\ Own(c)' # Own(c) => \A d \in Callers \ {c} : Own(d)' = Own(d)
         /\ (cpc'[c] = "done" /\ cpc[c] # "done")
              => (/\ coutcome'[c] = Alone(c).outcome
                  /\ crounds'[c] = Alone(c).rounds)]_vars
C17_Witness ==
    /\ cpc[1] = "done" /\ coutcome[1] = "AcmeChallege"
    /\ cpc[2] = "done" /\ coutcome[2] = "Ok" /\ crounds[2] = 2
    /\ nres[1] = 2

\* C19 - Expiry is permanent: checking the expiry or the passing of time
\* changes nothing of a Token, and once token_expired was true for a Token
\* (or the Option holding it) it is true at every later check of it.
C19_ExpiryPermanent ==
    [][/\ (now' # now \/ obs' # obs) => token' = token
       /\ now' >= now
       /\ (obs.kind # "none" /\ obs.tok.some /\ obs.res = TRUE
             /\ obs'.tok = obs.tok)
            => obs'.res = TRUE]_vars
C19_Witness ==
    /\ obs.kind = "option" /\ obs.tok.some /\ obs.res = TRUE
    /\ token = obs.tok
    /\ obs.at >= obs.tok.expired + 3

\* the round trip through a file that was not longer than the token
RoundTripWhenNotLonger ==
    (fresh /\ Len(file.data) = Len(parsed.tok.raw))
    => /\ file.exists /\ file.data = parsed.tok.raw
       /\ readBack.kind = "done" =>
             (readBack.ok /\ readBack.tok = parsed.tok)

\* C20 - File round trip: whatever the file held before, after
\* try_to_write_file the file content is the token's raw text, and
\* try_from_file then succeeds with a Token of the same raw text and expiry.
C20_FileRoundTrip ==
    fresh =>
        /\ file.exists /\ file.data = parsed.tok.raw
        /\ readBack.kind = "done" =>
              (readBack.ok /\ readBack.tok = parsed.tok)

====
